---------------------------- MODULE Spec2Model ----------------------------
(***************************************************************************)
(* Mahjong Solitaire: the board-generation and free-tile engine            *)
(* (src/src/game/engine.ts) and the session that drives it                 *)
(* (src/src/hooks/useGameState.ts).                                        *)
(*                                                                         *)
(* Coordinates are kept in tenths of a grid unit, so that the layouts'     *)
(* half-integer offsets and the 0.9 / 1.1 tolerances of the occlusion      *)
(* tests are exact integers (0.5 -> 5, 0.9 -> 9, 1.1 -> 11).  A tile id    *)
(* `tile-n` is the integer n.                                              *)
(***************************************************************************)
EXTENDS Integers, Sequences, FiniteSets, TLC

(***************************************************************************)
(* Bounds of the model.                                                    *)
(***************************************************************************)
\* attempts explored per generateBoard / shuffleBoard call (the code's
\* budgets GEN_ATTEMPTS / SHUFFLE_ATTEMPTS are cut down to this)
MaxAttempts == 2
\* the random index of a type draw is taken among the first MaxDraw entries
MaxDraw == 2
\* shuffle is explored while the id counter is at most this
MaxTileId == 4
\* for layouts of more positions than this a type draw takes the first entry
MaxBranching == 16
\* Date.now() when the page is loaded, and the step and the end of the clock
StartNow == 5000
TickMs == 1000
MaxNow == 8000
\* selectTile is explored while the score is at most this
MaxScore == 150
\* the seconds on the game clock when selectTile is called are at most this
MaxElapsed == 1

(***************************************************************************)
(* Program constants.                                                      *)
(***************************************************************************)
FULL_SET == 144
GEN_ATTEMPTS == 50
SHUFFLE_ATTEMPTS == 20
\* 0.9, 1.1 and MIN_DISTANCE = 4.0, in tenths
SAME_CELL == 9
ADJACENT == 11
MIN_DISTANCE == 40
INITIAL_REMAINING == 144
\* validateLayout: 140 <= positions.length <= 144
VALID_MIN == 140
VALID_MAX == 144
\* useGameState: 3 seconds to maintain combo; the points of a match and of undo
COMBO_TIMEOUT == 3000
BASE_POINTS == 100
SPEED_BONUS == 50
UNDO_PENALTY == 100
NUM_STANDARD == 34
NUM_BONUS == 8
\* null for selectedTileId (tile ids start at 1)
NoTile == 0

Abs(n) == IF n < 0 THEN -n ELSE n

Min(a, b) == IF a < b THEN a ELSE b

Max(a, b) == IF a > b THEN a ELSE b

Budget(n) == Min(n, MaxAttempts)

(***************************************************************************)
(* Tile catalog (tiles.ts): 34 standard types without a match group, and   *)
(* 8 bonus types in two match groups of four.                              *)
(***************************************************************************)
NoGroup == ""

ALL_TILE_TYPES ==
    [i \in 1..(NUM_STANDARD + NUM_BONUS) |->
        [id |-> i,
         matchGroup |-> IF i <= NUM_STANDARD THEN NoGroup
                        ELSE IF i <= NUM_STANDARD + (NUM_BONUS \div 2) THEN "flower"
                        ELSE "season"]]

STANDARD_TILES == SubSeq(ALL_TILE_TYPES, 1, NUM_STANDARD)

Undefined == [id |-> 0, matchGroup |-> NoGroup]

getTileTypeById(typeId) ==
    IF typeId \in DOMAIN ALL_TILE_TYPES THEN ALL_TILE_TYPES[typeId] ELSE Undefined

tilesMatch(type1, type2) ==
    \/ type1.matchGroup # NoGroup /\ type1.matchGroup = type2.matchGroup
    \/ type1.id = type2.id

\* t.matchGroup || t.id
MatchKey(t) == IF t.matchGroup # NoGroup THEN <<"group", t.matchGroup>> ELSE <<"id", t.id>>

(***************************************************************************)
(* Positions and tiles.                                                    *)
(***************************************************************************)
P(x, y, z) == [x |-> x, y |-> y, z |-> z]

Tile(id, typeId, pos) ==
    [id |-> id, typeId |-> typeId, x |-> pos.x, y |-> pos.y, z |-> pos.z, isRemoved |-> FALSE]

PosOf(t) == P(t.x, t.y, t.z)

ActiveTiles(ts) == SelectSeq(ts, LAMBDA t : ~t.isRemoved)

\* the removed tiles left behind
RemovedTilesDropped(ts) == <<>>

RemovedTiles(ts) == SelectSeq(ts, LAMBDA t : t.isRemoved)

Range(s) == {s[i] : i \in DOMAIN s}

(***************************************************************************)
(* Occlusion model: isFreeTile.                                            *)
(***************************************************************************)
hasBlockingTop(tile, activeTiles) ==
    \E i \in DOMAIN activeTiles :
        LET other == activeTiles[i] IN
        /\ other.id # tile.id
        /\ other.z > tile.z
        /\ Abs(other.x - tile.x) < SAME_CELL
        /\ Abs(other.y - tile.y) < SAME_CELL

hasBlockingLeft(tile, activeTiles) ==
    \E i \in DOMAIN activeTiles :
        LET other == activeTiles[i] IN
        /\ other.id # tile.id
        /\ other.z = tile.z
        /\ Abs(other.y - tile.y) < SAME_CELL
        /\ other.x < tile.x
        /\ tile.x - other.x < ADJACENT

\* the right-hand test written as a copy of the left-hand one
hasBlockingRightAsLeft(tile, activeTiles) ==
    \E i \in DOMAIN activeTiles :
        LET other == activeTiles[i] IN
        /\ other.id # tile.id
        /\ other.z = tile.z
        /\ Abs(other.y - tile.y) < SAME_CELL
        /\ other.x < tile.x
        /\ tile.x - other.x < ADJACENT

hasBlockingRight(tile, activeTiles) ==
    \E i \in DOMAIN activeTiles :
        LET other == activeTiles[i] IN
        /\ other.id # tile.id
        /\ other.z = tile.z
        /\ Abs(other.y - tile.y) < SAME_CELL
        /\ other.x > tile.x
        /\ other.x - tile.x < ADJACENT

\* free only when both sides are open
isFreeTileBothSides(tile, allTiles) ==
    IF tile.isRemoved THEN FALSE
    ELSE LET activeTiles == ActiveTiles(allTiles) IN
         IF hasBlockingTop(tile, activeTiles) THEN FALSE
         ELSE ~hasBlockingLeft(tile, activeTiles) /\ ~hasBlockingRight(tile, activeTiles)

\* the removed tiles not filtered out of the blockers
isFreeTileUnfiltered(tile, allTiles) ==
    IF tile.isRemoved THEN FALSE
    ELSE IF hasBlockingTop(tile, allTiles) THEN FALSE
         ELSE ~hasBlockingLeft(tile, allTiles) \/ ~hasBlockingRight(tile, allTiles)

isFreeTile(tile, allTiles) ==
    IF tile.isRemoved THEN FALSE
    ELSE LET activeTiles == ActiveTiles(allTiles) IN
         IF hasBlockingTop(tile, activeTiles) THEN FALSE
         ELSE ~hasBlockingLeft(tile, activeTiles) \/ ~hasBlockingRight(tile, activeTiles)

(***************************************************************************)
(* Match finder.                                                           *)
(***************************************************************************)
\* each hit put in front of the ones found so far
RECURSIVE MatchesFromPrepending(_, _, _)
MatchesFromPrepending(freeTiles, i, j) ==
    IF i > Len(freeTiles) THEN <<>>
    ELSE IF j > Len(freeTiles) THEN MatchesFromPrepending(freeTiles, i + 1, i + 2)
    ELSE LET tile1 == freeTiles[i]
             tile2 == freeTiles[j]
             type1 == getTileTypeById(tile1.typeId)
             type2 == getTileTypeById(tile2.typeId)
             hit == type1 # Undefined /\ type2 # Undefined /\ tilesMatch(type1, type2)
         IN MatchesFromPrepending(freeTiles, i, j + 1) \o (IF hit THEN << <<tile1, tile2>> >> ELSE <<>>)

RECURSIVE MatchesFrom(_, _, _)
MatchesFrom(freeTiles, i, j) ==
    IF i > Len(freeTiles) THEN <<>>
    ELSE IF j > Len(freeTiles) THEN MatchesFrom(freeTiles, i + 1, i + 2)
    ELSE LET tile1 == freeTiles[i]
             tile2 == freeTiles[j]
             type1 == getTileTypeById(tile1.typeId)
             type2 == getTileTypeById(tile2.typeId)
             hit == type1 # Undefined /\ type2 # Undefined /\ tilesMatch(type1, type2)
         IN (IF hit THEN << <<tile1, tile2>> >> ELSE <<>>) \o MatchesFrom(freeTiles, i, j + 1)

\* the pairs taken among the active tiles instead of the free ones
findAllMatchesActive(ts) == MatchesFrom(ActiveTiles(ts), 1, 2)

findAllMatches(ts) ==
    LET activeTiles == ActiveTiles(ts)
        freeTiles == SelectSeq(activeTiles, LAMBDA t : isFreeTile(t, activeTiles))
    IN MatchesFrom(freeTiles, 1, 2)

checkWin(ts) == \A i \in DOMAIN ts : ts[i].isRemoved

\* the early return on a won board left out
checkStuckNoWinTest(ts) == Len(findAllMatches(ts)) = 0

checkStuck(ts) == IF checkWin(ts) THEN FALSE ELSE Len(findAllMatches(ts)) = 0

\* the last match instead of the first
getHintLast(ts) ==
    LET matches == findAllMatches(ts) IN
    IF Len(matches) = 0 THEN <<>>
    ELSE <<matches[Len(matches)][1].id, matches[Len(matches)][2].id>>

getHint(ts) ==
    LET matches == findAllMatches(ts) IN
    IF Len(matches) = 0 THEN <<>> ELSE <<matches[1][1].id, matches[1][2].id>>

\* only tiles that are free are marked
removeTilePairFreeOnly(ts, tile1Id, tile2Id) ==
    [i \in DOMAIN ts |->
        IF (ts[i].id = tile1Id \/ ts[i].id = tile2Id) /\ isFreeTile(ts[i], ts)
        THEN [ts[i] EXCEPT !.isRemoved = TRUE]
        ELSE ts[i]]

\* every other tile written back as not removed
removeTilePairResetting(ts, tile1Id, tile2Id) ==
    [i \in DOMAIN ts |->
        [ts[i] EXCEPT !.isRemoved = (ts[i].id = tile1Id \/ ts[i].id = tile2Id)]]

removeTilePair(ts, tile1Id, tile2Id) ==
    [i \in DOMAIN ts |->
        IF ts[i].id = tile1Id \/ ts[i].id = tile2Id
        THEN [ts[i] EXCEPT !.isRemoved = TRUE]
        ELSE ts[i]]


(***************************************************************************)
(* Board generator: the type list generateBoard builds for a layout.       *)
(***************************************************************************)
Repeat(type, count) == [i \in 1..count |-> type]

RemoveAt(s, i) == SubSeq(s, 1, i - 1) \o SubSeq(s, i + 1, Len(s))

RECURSIVE FullSet(_)
FullSet(i) ==
    IF i > Len(STANDARD_TILES) THEN SelectSeq(ALL_TILE_TYPES, LAMBDA t : t.matchGroup # NoGroup)
    ELSE Repeat(STANDARD_TILES[i], 4) \o FullSet(i + 1)

\* Math.floor(Math.random() * n): any index 0..n-1
RandomIndex(n) == 0..(n - 1)

\* a single tile instead of a pair for the last positions
typeCountSingle(posCount, len) == IF posCount - len >= 4 THEN 4 ELSE 1

typeCount(posCount, len) == IF posCount - len >= 4 THEN 4 ELSE 2

\* the random indices a draw is explored on
DrawWidth(posCount) == IF posCount <= MaxBranching THEN MaxDraw ELSE 1

\* the drawn type left in the pool (a draw with replacement)
RECURSIVE DrawTypesReplacing(_, _, _)
DrawTypesReplacing(posCount, available, tilePairs) ==
    IF ~(Len(tilePairs) < posCount) THEN {tilePairs}
    ELSE UNION {
        LET type == available[idx + 1]
            count == typeCount(posCount, Len(tilePairs))
        IN DrawTypesReplacing(posCount, available, tilePairs \o Repeat(type, count))
        : idx \in {r \in RandomIndex(Len(available)) : r < DrawWidth(posCount)} }

\* the type lists the dynamic-subset loop can end with
RECURSIVE DrawTypes(_, _, _)
DrawTypes(posCount, available, tilePairs) ==
    IF ~(Len(tilePairs) < posCount) THEN {tilePairs}
    ELSE UNION {
        LET type == available[idx + 1]
            rest == RemoveAt(available, idx + 1)
            count == typeCount(posCount, Len(tilePairs))
        IN DrawTypes(posCount,
                     IF Len(rest) = 0 THEN STANDARD_TILES ELSE rest,
                     tilePairs \o Repeat(type, count))
        : idx \in {r \in RandomIndex(Len(available)) : r < DrawWidth(posCount)} }

TilePairsFor(positions) ==
    IF Len(positions) = FULL_SET THEN {FullSet(1)}
    ELSE DrawTypes(Len(positions), STANDARD_TILES, <<>>)

(***************************************************************************)
(* Board generator: assignSolvableTypes.                                   *)
(***************************************************************************)
\* a position counted as available only when both of its sides are open
isPositionAvailableBothSides(pos, occupiedPositions) ==
    LET hasTop == \E i \in DOMAIN occupiedPositions :
                      LET other == occupiedPositions[i] IN
                      /\ other.z > pos.z
                      /\ Abs(other.x - pos.x) < SAME_CELL
                      /\ Abs(other.y - pos.y) < SAME_CELL
        hasLeft == \E i \in DOMAIN occupiedPositions :
                      LET other == occupiedPositions[i] IN
                      /\ other.z = pos.z
                      /\ Abs(other.y - pos.y) < SAME_CELL
                      /\ other.x < pos.x
                      /\ pos.x - other.x < ADJACENT
        hasRight == \E i \in DOMAIN occupiedPositions :
                      LET other == occupiedPositions[i] IN
                      /\ other.z = pos.z
                      /\ Abs(other.y - pos.y) < SAME_CELL
                      /\ other.x > pos.x
                      /\ other.x - pos.x < ADJACENT
    IN IF hasTop THEN FALSE ELSE ~hasLeft /\ ~hasRight

isPositionAvailable(pos, occupiedPositions) ==
    LET hasTop == \E i \in DOMAIN occupiedPositions :
                      LET other == occupiedPositions[i] IN
                      /\ other.z > pos.z
                      /\ Abs(other.x - pos.x) < SAME_CELL
                      /\ Abs(other.y - pos.y) < SAME_CELL
        hasLeft == \E i \in DOMAIN occupiedPositions :
                      LET other == occupiedPositions[i] IN
                      /\ other.z = pos.z
                      /\ Abs(other.y - pos.y) < SAME_CELL
                      /\ other.x < pos.x
                      /\ pos.x - other.x < ADJACENT
        hasRight == \E i \in DOMAIN occupiedPositions :
                      LET other == occupiedPositions[i] IN
                      /\ other.z = pos.z
                      /\ Abs(other.y - pos.y) < SAME_CELL
                      /\ other.x > pos.x
                      /\ other.x - pos.x < ADJACENT
    IN IF hasTop THEN FALSE ELSE ~hasLeft \/ ~hasRight

\* the keys of typeGroups, in insertion order
RECURSIVE GroupKeys(_, _)
GroupKeys(availableTypes, seen) ==
    IF availableTypes = <<>> THEN <<>>
    ELSE LET key == MatchKey(Head(availableTypes)) IN
         IF key \in seen THEN GroupKeys(Tail(availableTypes), seen)
         ELSE <<key>> \o GroupKeys(Tail(availableTypes), seen \cup {key})

\* the loop bound off by one: while (group.length > 2)
RECURSIVE PopPairsStrict(_)
PopPairsStrict(group) ==
    IF Len(group) > 2
    THEN << <<group[Len(group)], group[Len(group) - 1]>> >>
            \o PopPairsStrict(SubSeq(group, 1, Len(group) - 2))
    ELSE <<>>

\* while (group.length >= 2) matchingPairs.push([group.pop(), group.pop()])
RECURSIVE PopPairs(_)
PopPairs(group) ==
    IF Len(group) >= 2
    THEN << <<group[Len(group)], group[Len(group) - 1]>> >> \o PopPairs(SubSeq(group, 1, Len(group) - 2))
    ELSE <<>>

RECURSIVE PairsOfGroups(_, _)
PairsOfGroups(availableTypes, keys) ==
    IF keys = <<>> THEN <<>>
    ELSE PopPairs(SelectSeq(availableTypes, LAMBDA t : MatchKey(t) = Head(keys)))
            \o PairsOfGroups(availableTypes, Tail(keys))

BuildMatchingPairs(availableTypes) ==
    PairsOfGroups(availableTypes, GroupKeys(availableTypes, {}))

\* the orders a Fisher-Yates shuffle can leave a list in: all of them
Shuffles(s) == {[i \in DOMAIN s |-> s[p[i]]] : p \in Permutations(DOMAIN s)}

\* getDistance(p1, p2) >= MIN_DISTANCE, with dy weighted 1.5:
\* sqrt(dx^2 + (1.5 dy)^2) >= 4  <=>  4 dx^2 + 9 dy^2 >= 4 * 40^2 in tenths
FarEnough(p1, p2) ==
    4 * (p1.x - p2.x) * (p1.x - p2.x) + 9 * (p1.y - p2.y) * (p1.y - p2.y)
        >= 4 * MIN_DISTANCE * MIN_DISTANCE

farPositions(placeablePositions, idx1) ==
    {i \in DOMAIN placeablePositions :
        i # idx1 /\ FarEnough(placeablePositions[idx1], placeablePositions[i])}

\* The <<pos1, pos2>> one placement step can choose.  Each of the random tries
\* succeeds when its candidate has a far partner; the fallback is taken when every
\* try fell on a candidate without one, which needs such a candidate to exist.
\* the fallback without its filter i !== idx1: the same entry can be drawn twice
PositionChoicesRepeating(placeablePositions) ==
    LET D == DOMAIN placeablePositions
        found == UNION {{<<placeablePositions[i], placeablePositions[j]>> :
                            j \in farPositions(placeablePositions, i)} : i \in D}
        random == {<<placeablePositions[c[1]], placeablePositions[c[2]]>> : c \in D \X D}
    IN found \cup (IF \E i \in D : farPositions(placeablePositions, i) = {} THEN random ELSE {})

PositionChoices(placeablePositions) ==
    LET D == DOMAIN placeablePositions
        found == UNION {{<<placeablePositions[i], placeablePositions[j]>> :
                            j \in farPositions(placeablePositions, i)} : i \in D}
        random == {<<placeablePositions[c[1]], placeablePositions[c[2]]>> :
                      c \in {d \in D \X D : d[1] # d[2]}}
    IN found \cup (IF \E i \in D : farPositions(placeablePositions, i) = {} THEN random ELSE {})

RECURSIVE IndexOf(_, _, _)
IndexOf(s, e, i) == IF i > Len(s) THEN 0 ELSE IF s[i] = e THEN i ELSE IndexOf(s, e, i + 1)

\* availablePositions.splice(availablePositions.indexOf(pos), 1)
SpliceOut(s, e) == RemoveAt(s, IndexOf(s, e, 1))

(***************************************************************************)
(* Layouts the model runs on (a layout is its position list).              *)
(***************************************************************************)
EmptyLayout == <<>>

SingleLayout == <<P(0, 0, 0)>>

Tower2 == <<P(0, 0, 0), P(0, 0, 10)>>

Row3 == <<P(0, 0, 0), P(10, 0, 0), P(20, 0, 0)>>

Row4 == <<P(0, 0, 0), P(10, 0, 0), P(20, 0, 0), P(30, 0, 0)>>

\* a row of three with a half-offset tile lying over the two right ones
Cap4 == <<P(0, 0, 0), P(10, 0, 0), P(20, 0, 0), P(15, 5, 10)>>

Row6 == <<P(0, 0, 0), P(10, 0, 0), P(20, 0, 0), P(30, 0, 0), P(40, 0, 0), P(50, 0, 0)>>

\* three, two and one tile stacked with half offsets
Pyramid6 == <<P(0, 0, 0), P(10, 0, 0), P(20, 0, 0), P(5, 0, 10), P(15, 0, 10), P(10, 0, 20)>>

\* two far apart rows of three: every tile has a well-separated partner
Wide6 == <<P(0, 0, 0), P(10, 0, 0), P(20, 0, 0), P(0, 40, 0), P(10, 40, 0), P(20, 40, 0)>>

(***************************************************************************)
(* Three layouts of the registry (layouts.ts), position for position.      *)
(***************************************************************************)
\* one row of a layer: width positions from startX on
GridRow(startX, width, y, z) == [i \in 1..width |-> P(10 * (startX + i - 1), 10 * y, 10 * z)]

\* rows[from] \o ... \o rows[to]
RECURSIVE ConcatRows(_, _, _)
ConcatRows(rows, from, to) ==
    IF from > to THEN <<>> ELSE rows[from] \o ConcatRows(rows, from + 1, to)

\* positions.slice(0, 144)
Slice(s, n) == SubSeq(s, 1, Min(Len(s), n))

\* generatePyramidPositions: five square layers of width 12, 10, 8, 6, 4
pyramidLayout ==
    Slice(ConcatRows([z \in 0..4 |->
                         ConcatRows([y \in 0..(11 - 2 * z) |-> GridRow(z, 12 - 2 * z, y + z, z)],
                                    0, 11 - 2 * z)],
                     0, 4),
          FULL_SET)

\* one diamond-shaped layer of generateDiamondPositions
DiamondLayer(base, yFrom, yTo, z) ==
    ConcatRows([y \in yFrom..yTo |->
                   LET distY == Abs(y - 4)
                       width == Max(1, base - distY * 2)
                       startX == 8 - (width \div 2)
                   IN GridRow(startX, width, y, z)],
               yFrom, yTo)

\* generateDiamondPositions
diamondLayout ==
    Slice(DiamondLayer(9, 0, 8, 0) \o DiamondLayer(7, 1, 7, 1) \o DiamondLayer(5, 2, 6, 2)
              \o <<P(80, 30, 30), P(70, 40, 30), P(80, 40, 30), P(90, 40, 30), P(80, 50, 30)>>
              \o <<P(80, 40, 40)>>,
          FULL_SET)

\* the first n positions of generateFlatPositions: rows of 18 on layer 0
Grid(n) == [i \in 1..n |-> P(10 * ((i - 1) % 18), 10 * ((i - 1) \div 18), 0)]

\* generateFlatPositions
flatLayout == Slice(Grid(18 * 8), FULL_SET)

\* the part of LAYOUTS the model carries
LAYOUTS == <<flatLayout, pyramidLayout, diamondLayout>>

validateLayout(l) == Len(l) >= VALID_MIN /\ Len(l) <= VALID_MAX

SessionLayouts == {EmptyLayout, SingleLayout, Tower2, Row3, Row4, Cap4}

GenLayouts == SessionLayouts \cup {Row6, Pyramid6, Wide6}

(***************************************************************************)
(* State.                                                                  *)
(***************************************************************************)
VARIABLES
    layout,             \* gameState.board.layout.positions
    tiles,              \* gameState.board.tiles
    selectedTileId, history, tilesRemaining, matchesMade, isComplete, isStuck, hintPair,
    tileIdCounter,      \* the module-level id counter of engine.ts
    pc,                 \* "attempt" | "place" (inside generateBoard / shuffleBoard) | "play" | "tiles"
    caller,             \* "generateBoard" | "shuffleBoard": whose retry loop is running
    attempts,           \* attempts made by that loop
    positions,          \* the positions argument of assignSolvableTypes
    tilePairs,          \* the types argument of assignSolvableTypes
    matchingPairs,      \* pairs the placement loop has still to place
    occupiedPositions, availablePositions, finalTiles,
    degraded,           \* the board in tiles came from a fallback path
    logged,             \* console.error was called by the last generateBoard / shuffleBoard
    exact,              \* the retry loops run on their full budgets (not cut to MaxAttempts)
    score, combo, lastMatchTime,    \* the fields ExtendedGameState adds to the game state
    timerDue,           \* when the pending combo-decay timeout fires; 0 when none is pending
    now,                \* Date.now()
    scored              \* score and combo are kept (the session specification leaves them at rest)

session == <<selectedTileId, history, tilesRemaining, matchesMade, isComplete, isStuck, hintPair>>

board == <<layout, tiles>>

attempt == <<matchingPairs, occupiedPositions, availablePositions, finalTiles>>

call == <<caller, attempts, positions, tilePairs>>

scoring == <<score, combo, lastMatchTime>>

clock == <<now, scored>>

vars == <<board, session, tileIdCounter, pc, call, attempt, degraded, logged, exact,
          scoring, timerDue, clock>>

\* the state of a session whose score and combo are left at rest
NoScoring ==
    /\ score = 0
    /\ combo = 0
    /\ lastMatchTime = 0
    /\ timerDue = 0
    /\ now = StartNow
    /\ scored = FALSE


(***************************************************************************)
(* createGameState: the session fields of a fresh game.                    *)
(***************************************************************************)
FreshSession ==
    /\ selectedTileId' = NoTile
    /\ history' = <<>>
    /\ tilesRemaining' = INITIAL_REMAINING
    /\ matchesMade' = 0
    /\ isComplete' = FALSE
    /\ isStuck' = FALSE
    /\ hintPair' = <<>>

NoAttempt ==
    /\ matchingPairs' = <<>>
    /\ occupiedPositions' = <<>>
    /\ availablePositions' = <<>>
    /\ finalTiles' = <<>>

\* The state on entry to the retry loop of generateBoard, called by createGameState
\* for the initial layout: the id counter reset and the type list built.
InitOn(layouts) ==
    /\ \E l \in layouts : \E tp \in TilePairsFor(l) : positions = l /\ tilePairs = tp
    /\ layout = <<>>
    /\ tiles = <<>>
    /\ selectedTileId = NoTile
    /\ history = <<>>
    /\ tilesRemaining = INITIAL_REMAINING
    /\ matchesMade = 0
    /\ isComplete = FALSE
    /\ isStuck = FALSE
    /\ hintPair = <<>>
    /\ tileIdCounter = 0
    /\ pc = "attempt"
    /\ caller = "generateBoard"
    /\ attempts = 0
    /\ matchingPairs = <<>>
    /\ occupiedPositions = <<>>
    /\ availablePositions = <<>>
    /\ finalTiles = <<>>
    /\ degraded = FALSE
    /\ logged = FALSE

Init == InitOn(SessionLayouts) /\ exact = FALSE /\ NoScoring

(***************************************************************************)
(* generateBoard / shuffleBoard: the retry loop around assignSolvableTypes.*)
(***************************************************************************)
AttemptBudget ==
    LET budget == IF caller = "generateBoard" THEN GEN_ATTEMPTS ELSE SHUFFLE_ATTEMPTS
    IN IF exact THEN budget ELSE Budget(budget)

\* one more attempt: assignSolvableTypes starts, with its pair list shuffled
StartAttempt ==
    /\ pc = "attempt"
    /\ attempts < AttemptBudget
    /\ attempts' = attempts + 1
    /\ matchingPairs' \in Shuffles(BuildMatchingPairs(tilePairs))
    /\ occupiedPositions' = <<>>
    /\ availablePositions' = positions
    /\ finalTiles' = <<>>
    /\ pc' = "place"
    /\ UNCHANGED <<board, session, tileIdCounter, caller, positions, tilePairs, degraded, logged, exact, scoring, timerDue, clock>>

placeable == SelectSeq(availablePositions, LAMBDA pos : isPositionAvailable(pos, occupiedPositions))

\* one iteration of the placement loop that places its pair
PlacePair ==
    /\ pc = "place"
    /\ matchingPairs # <<>>
    /\ ~(Len(placeable) < 2)
    /\ \E choice \in PositionChoices(placeable) :
          LET pos1 == choice[1]
              pos2 == choice[2]
              type1 == Head(matchingPairs)[1]
              type2 == Head(matchingPairs)[2]
          IN /\ finalTiles' = finalTiles \o <<Tile(tileIdCounter + 1, type1.id, pos1),
                                              Tile(tileIdCounter + 2, type2.id, pos2)>>
             /\ tileIdCounter' = tileIdCounter + 2
             /\ occupiedPositions' = occupiedPositions \o <<pos1, pos2>>
             /\ availablePositions' = SpliceOut(SpliceOut(availablePositions, pos1), pos2)
    /\ matchingPairs' = Tail(matchingPairs)
    /\ UNCHANGED <<board, session, pc, call, degraded, logged, exact, scoring, timerDue, clock>>

\* a failed attempt that does not count against the budget
AttemptStuckUncounted ==
    /\ pc = "place"
    /\ matchingPairs # <<>>
    /\ Len(placeable) < 2
    /\ pc' = "attempt"
    /\ attempts' = 0
    /\ tileIdCounter' = 0
    /\ NoAttempt
    /\ UNCHANGED <<board, session, caller, positions, tilePairs, degraded, logged, exact, scoring, timerDue, clock>>

\* one iteration that finds fewer than two placeable positions: return null
AttemptStuck ==
    /\ pc = "place"
    /\ matchingPairs # <<>>
    /\ Len(placeable) < 2
    /\ pc' = "attempt"
    /\ NoAttempt
    /\ UNCHANGED <<board, session, tileIdCounter, call, degraded, logged, exact, scoring, timerDue, clock>>

\* every pair placed: assignSolvableTypes returns finalTiles and its caller returns
AttemptDone ==
    /\ pc = "place"
    /\ matchingPairs = <<>>
    /\ pc' = "play"
    /\ degraded' = FALSE
    /\ NoAttempt
    /\ IF caller = "generateBoard"
       THEN /\ layout' = positions
            /\ tiles' = finalTiles
            /\ FreshSession
       ELSE /\ tiles' = finalTiles \o RemovedTiles(tiles)
            /\ UNCHANGED <<layout, session>>
    /\ UNCHANGED <<tileIdCounter, call, logged, exact, scoring, timerDue, clock>>

\* the budget is used up: the fallback assignment
Fallback ==
    /\ pc = "attempt"
    /\ ~(attempts < AttemptBudget)
    /\ pc' = "play"
    /\ degraded' = TRUE
    /\ tileIdCounter' = tileIdCounter + Len(positions)
    /\ IF caller = "generateBoard"
       THEN /\ logged' = TRUE
            /\ layout' = positions
            /\ tiles' = [i \in DOMAIN positions |->
                            Tile(tileIdCounter + i, tilePairs[i].id, positions[i])]
            /\ FreshSession
       ELSE /\ \E types \in Shuffles(tilePairs) :
                  tiles' = [i \in DOMAIN positions |->
                               Tile(tileIdCounter + i, types[i].id, positions[i])]
                           \o RemovedTiles(tiles)
            /\ UNCHANGED <<logged, layout, session>>
    /\ UNCHANGED <<call, attempt, exact, scoring, timerDue, clock>>

Generate == StartAttempt \/ PlacePair \/ AttemptStuck \/ AttemptDone \/ Fallback

(***************************************************************************)
(* The session (useGameState).                                             *)
(***************************************************************************)
\* calculateMatchPoints
calculateMatchPoints(newCombo, elapsedTime) ==
    LET comboMultiplier == Max(1, newCombo)
        speedBonus == Max(0, SPEED_BONUS - (elapsedTime \div 10))
    IN (BASE_POINTS + speedBonus) * comboMultiplier

\* the combo of a match made at the time now (<= in place of <)
newComboInclusive == IF now - lastMatchTime <= COMBO_TIMEOUT THEN combo + 1 ELSE 1

\* the combo of a match made at the time now
newCombo == IF now - lastMatchTime < COMBO_TIMEOUT THEN combo + 1 ELSE 1

\* the combo-decay effect: when combo or lastMatchTime has changed the pending
\* timeout is cleared, and a new one is set when the combo is positive
Reschedule ==
    timerDue' = IF combo' = combo /\ lastMatchTime' = lastMatchTime THEN timerDue
                ELSE IF combo' > 0 THEN now + COMBO_TIMEOUT ELSE 0

\* the update A of score, combo and lastMatchTime, where they are kept
Scoring(A) == IF scored THEN A /\ Reschedule ELSE UNCHANGED <<scoring, timerDue>>

\* the seconds on the game clock a call of selectTile may see
ElapsedInputs == 0..MaxElapsed

\* tiles.find(t => t.id === id): the index of the first such tile, 0 when none
RECURSIVE FindTile(_, _, _)
FindTile(ts, id, i) ==
    IF i > Len(ts) THEN 0 ELSE IF ts[i].id = id THEN i ELSE FindTile(ts, id, i + 1)

\* selectTile without the test that the clicked tile is free
SelectTileNoFreeCheck(tileId) ==
    /\ pc = "play"
    /\ LET i == FindTile(tiles, tileId, 1)
           s == FindTile(tiles, selectedTileId, 1)
       IN IF isComplete \/ isStuck THEN UNCHANGED <<board, session, scoring, timerDue>>
          ELSE IF i = 0 \/ tiles[i].isRemoved THEN UNCHANGED <<board, session, scoring, timerDue>>
          ELSE IF selectedTileId = NoTile
               THEN /\ selectedTileId' = tileId
                    /\ hintPair' = <<>>
                    /\ UNCHANGED <<scoring, timerDue, board, history, tilesRemaining, matchesMade, isComplete, isStuck>>
          ELSE IF selectedTileId = tileId
               THEN /\ selectedTileId' = NoTile
                    /\ UNCHANGED <<scoring, timerDue, board, history, tilesRemaining, matchesMade, isComplete, isStuck, hintPair>>
          ELSE IF s = 0
               THEN /\ selectedTileId' = tileId
                    /\ UNCHANGED <<scoring, timerDue, board, history, tilesRemaining, matchesMade, isComplete, isStuck, hintPair>>
          ELSE LET type1 == getTileTypeById(tiles[s].typeId)
                   type2 == getTileTypeById(tiles[i].typeId)
                   newTiles == removeTilePair(tiles, tiles[s].id, tiles[i].id)
               IN IF type1 # Undefined /\ type2 # Undefined /\ tilesMatch(type1, type2)
                  THEN /\ tiles' = newTiles
                       /\ selectedTileId' = NoTile
                       /\ history' = Append(history, tiles)
                       /\ tilesRemaining' = tilesRemaining - 2
                       /\ matchesMade' = matchesMade + 1
                       /\ isComplete' = checkWin(newTiles)
                       /\ isStuck' = (~checkWin(newTiles) /\ checkStuck(newTiles))
                       /\ hintPair' = <<>>
                       /\ Scoring(\E elapsedTime \in ElapsedInputs :
                                     /\ score' = score + calculateMatchPoints(newCombo, elapsedTime)
                                     /\ combo' = newCombo
                                     /\ lastMatchTime' = now)
                       /\ UNCHANGED layout
                  ELSE /\ selectedTileId' = tileId
                       /\ UNCHANGED <<scoring, timerDue, board, history, tilesRemaining, matchesMade, isComplete, isStuck, hintPair>>
    /\ UNCHANGED <<tileIdCounter, pc, call, attempt, degraded, logged, exact, clock>>

\* selectTile without the test of isStuck
SelectTileWhenStuck(tileId) ==
    /\ pc = "play"
    /\ LET i == FindTile(tiles, tileId, 1)
           s == FindTile(tiles, selectedTileId, 1)
       IN IF isComplete THEN UNCHANGED <<board, session, scoring, timerDue>>
          ELSE IF i = 0 \/ tiles[i].isRemoved THEN UNCHANGED <<board, session, scoring, timerDue>>
          ELSE IF ~isFreeTile(tiles[i], tiles) THEN UNCHANGED <<board, session, scoring, timerDue>>
          ELSE IF selectedTileId = NoTile
               THEN /\ selectedTileId' = tileId
                    /\ hintPair' = <<>>
                    /\ UNCHANGED <<scoring, timerDue, board, history, tilesRemaining, matchesMade, isComplete, isStuck>>
          ELSE IF selectedTileId = tileId
               THEN /\ selectedTileId' = NoTile
                    /\ UNCHANGED <<scoring, timerDue, board, history, tilesRemaining, matchesMade, isComplete, isStuck, hintPair>>
          ELSE IF s = 0
               THEN /\ selectedTileId' = tileId
                    /\ UNCHANGED <<scoring, timerDue, board, history, tilesRemaining, matchesMade, isComplete, isStuck, hintPair>>
          ELSE LET type1 == getTileTypeById(tiles[s].typeId)
                   type2 == getTileTypeById(tiles[i].typeId)
                   newTiles == removeTilePair(tiles, tiles[s].id, tiles[i].id)
               IN IF type1 # Undefined /\ type2 # Undefined /\ tilesMatch(type1, type2)
                  THEN /\ tiles' = newTiles
                       /\ selectedTileId' = NoTile
                       /\ history' = Append(history, tiles)
                       /\ tilesRemaining' = tilesRemaining - 2
                       /\ matchesMade' = matchesMade + 1
                       /\ isComplete' = checkWin(newTiles)
                       /\ isStuck' = (~checkWin(newTiles) /\ checkStuck(newTiles))
                       /\ hintPair' = <<>>
                       /\ Scoring(\E elapsedTime \in ElapsedInputs :
                                     /\ score' = score + calculateMatchPoints(newCombo, elapsedTime)
                                     /\ combo' = newCombo
                                     /\ lastMatchTime' = now)
                       /\ UNCHANGED layout
                  ELSE /\ selectedTileId' = tileId
                       /\ UNCHANGED <<scoring, timerDue, board, history, tilesRemaining, matchesMade, isComplete, isStuck, hintPair>>
    /\ UNCHANGED <<tileIdCounter, pc, call, attempt, degraded, logged, exact, clock>>

SelectTile(tileId) ==
    /\ pc = "play"
    /\ LET i == FindTile(tiles, tileId, 1)
           s == FindTile(tiles, selectedTileId, 1)
       IN IF isComplete \/ isStuck THEN UNCHANGED <<board, session, scoring, timerDue>>
          ELSE IF i = 0 \/ tiles[i].isRemoved THEN UNCHANGED <<board, session, scoring, timerDue>>
          ELSE IF ~isFreeTile(tiles[i], tiles) THEN UNCHANGED <<board, session, scoring, timerDue>>
          ELSE IF selectedTileId = NoTile
               THEN /\ selectedTileId' = tileId
                    /\ hintPair' = <<>>
                    /\ UNCHANGED <<scoring, timerDue, board, history, tilesRemaining, matchesMade, isComplete, isStuck>>
          ELSE IF selectedTileId = tileId
               THEN /\ selectedTileId' = NoTile
                    /\ UNCHANGED <<scoring, timerDue, board, history, tilesRemaining, matchesMade, isComplete, isStuck, hintPair>>
          ELSE IF s = 0
               THEN /\ selectedTileId' = tileId
                    /\ UNCHANGED <<scoring, timerDue, board, history, tilesRemaining, matchesMade, isComplete, isStuck, hintPair>>
          ELSE LET type1 == getTileTypeById(tiles[s].typeId)
                   type2 == getTileTypeById(tiles[i].typeId)
                   newTiles == removeTilePair(tiles, tiles[s].id, tiles[i].id)
               IN IF type1 # Undefined /\ type2 # Undefined /\ tilesMatch(type1, type2)
                  THEN /\ tiles' = newTiles
                       /\ selectedTileId' = NoTile
                       /\ history' = Append(history, tiles)
                       /\ tilesRemaining' = tilesRemaining - 2
                       /\ matchesMade' = matchesMade + 1
                       /\ isComplete' = checkWin(newTiles)
                       /\ isStuck' = (~checkWin(newTiles) /\ checkStuck(newTiles))
                       /\ hintPair' = <<>>
                       /\ Scoring(\E elapsedTime \in ElapsedInputs :
                                     /\ score' = score + calculateMatchPoints(newCombo, elapsedTime)
                                     /\ combo' = newCombo
                                     /\ lastMatchTime' = now)
                       /\ UNCHANGED layout
                  ELSE /\ selectedTileId' = tileId
                       /\ UNCHANGED <<scoring, timerDue, board, history, tilesRemaining, matchesMade, isComplete, isStuck, hintPair>>
    /\ UNCHANGED <<tileIdCounter, pc, call, attempt, degraded, logged, exact, clock>>

\* undo that takes the first snapshot of the history instead of the last
UndoToFirst ==
    /\ pc = "play"
    /\ IF Len(history) = 0 THEN UNCHANGED <<board, session, scoring, timerDue>>
       ELSE /\ tiles' = history[1]
            /\ selectedTileId' = NoTile
            /\ history' = SubSeq(history, 1, Len(history) - 1)
            /\ tilesRemaining' = tilesRemaining + 2
            /\ matchesMade' = matchesMade - 1
            /\ isComplete' = FALSE
            /\ isStuck' = FALSE
            /\ Scoring(/\ score' = Max(0, score - UNDO_PENALTY)
                       /\ combo' = 0
                       /\ UNCHANGED lastMatchTime)
            /\ hintPair' = <<>>
            /\ UNCHANGED layout
    /\ UNCHANGED <<tileIdCounter, pc, call, attempt, degraded, logged, exact, clock>>

\* undo that leaves the hint as it is
UndoKeepsHint ==
    /\ pc = "play"
    /\ IF Len(history) = 0 THEN UNCHANGED <<board, session, scoring, timerDue>>
       ELSE /\ tiles' = history[Len(history)]
            /\ selectedTileId' = NoTile
            /\ history' = SubSeq(history, 1, Len(history) - 1)
            /\ tilesRemaining' = tilesRemaining + 2
            /\ matchesMade' = matchesMade - 1
            /\ isComplete' = FALSE
            /\ isStuck' = FALSE
            /\ Scoring(/\ score' = Max(0, score - UNDO_PENALTY)
                       /\ combo' = 0
                       /\ UNCHANGED lastMatchTime)
            /\ UNCHANGED <<layout, hintPair>>
    /\ UNCHANGED <<tileIdCounter, pc, call, attempt, degraded, logged, exact, clock>>

\* undo that leaves the selection as it is
UndoKeepsSelection ==
    /\ pc = "play"
    /\ IF Len(history) = 0 THEN UNCHANGED <<board, session, scoring, timerDue>>
       ELSE /\ tiles' = history[Len(history)]
            /\ history' = SubSeq(history, 1, Len(history) - 1)
            /\ tilesRemaining' = tilesRemaining + 2
            /\ matchesMade' = matchesMade - 1
            /\ isComplete' = FALSE
            /\ isStuck' = FALSE
            /\ Scoring(/\ score' = Max(0, score - UNDO_PENALTY)
                       /\ combo' = 0
                       /\ UNCHANGED lastMatchTime)
            /\ hintPair' = <<>>
            /\ UNCHANGED <<layout, selectedTileId>>
    /\ UNCHANGED <<tileIdCounter, pc, call, attempt, degraded, logged, exact, clock>>

Undo ==
    /\ pc = "play"
    /\ IF Len(history) = 0 THEN UNCHANGED <<board, session, scoring, timerDue>>
       ELSE /\ tiles' = history[Len(history)]
            /\ selectedTileId' = NoTile
            /\ history' = SubSeq(history, 1, Len(history) - 1)
            /\ tilesRemaining' = tilesRemaining + 2
            /\ matchesMade' = matchesMade - 1
            /\ isComplete' = FALSE
            /\ isStuck' = FALSE
            /\ Scoring(/\ score' = Max(0, score - UNDO_PENALTY)
                       /\ combo' = 0
                       /\ UNCHANGED lastMatchTime)
            /\ hintPair' = <<>>
            /\ UNCHANGED layout
    /\ UNCHANGED <<tileIdCounter, pc, call, attempt, degraded, logged, exact, clock>>

\* shuffle that also empties the undo history
ShuffleClearsHistory ==
    /\ pc = "play"
    /\ tileIdCounter <= MaxTileId
    /\ pc' = "attempt"
    /\ caller' = "shuffleBoard"
    /\ attempts' = 0
    /\ positions' = [i \in DOMAIN ActiveTiles(tiles) |-> PosOf(ActiveTiles(tiles)[i])]
    /\ tilePairs' = SelectSeq([i \in DOMAIN ActiveTiles(tiles) |->
                                  getTileTypeById(ActiveTiles(tiles)[i].typeId)],
                              LAMBDA t : t # Undefined)
    /\ logged' = FALSE
    /\ selectedTileId' = NoTile
    /\ isStuck' = FALSE
    /\ hintPair' = <<>>
    /\ Scoring(combo' = 0 /\ UNCHANGED <<score, lastMatchTime>>)
    /\ history' = <<>>
    /\ UNCHANGED <<board, tilesRemaining, matchesMade, isComplete,
                   tileIdCounter, attempt, degraded, exact, clock>>

\* shuffle calls shuffleBoard: the positions and types of the active tiles go to
\* assignSolvableTypes.  The fields the same setGameState update sets beside the
\* board (selectedTileId, isStuck, hintPair) are written here; nothing reads the
\* session before shuffleBoard has returned (pc = "play").
Shuffle ==
    /\ pc = "play"
    /\ tileIdCounter <= MaxTileId
    /\ pc' = "attempt"
    /\ caller' = "shuffleBoard"
    /\ attempts' = 0
    /\ positions' = [i \in DOMAIN ActiveTiles(tiles) |-> PosOf(ActiveTiles(tiles)[i])]
    /\ tilePairs' = SelectSeq([i \in DOMAIN ActiveTiles(tiles) |->
                                  getTileTypeById(ActiveTiles(tiles)[i].typeId)],
                              LAMBDA t : t # Undefined)
    /\ logged' = FALSE
    /\ selectedTileId' = NoTile
    /\ isStuck' = FALSE
    /\ hintPair' = <<>>
    /\ Scoring(combo' = 0 /\ UNCHANGED <<score, lastMatchTime>>)
    /\ UNCHANGED <<board, history, tilesRemaining, matchesMade, isComplete,
                   tileIdCounter, attempt, degraded, exact, clock>>

ShowHint ==
    /\ pc = "play"
    /\ hintPair' = getHint(tiles)
    /\ selectedTileId' = NoTile
    /\ UNCHANGED <<board, history, tilesRemaining, matchesMade, isComplete, isStuck,
                   tileIdCounter, pc, call, attempt, degraded, logged, exact, scoring, timerDue, clock>>

\* newGame: createGameState -> generateBoard on the chosen (or the current) layout.
\* The old game is dropped on entry: setGameState replaces every field of it when
\* generateBoard has returned, and nothing reads it in between.
NewGame(l) ==
    /\ pc = "play"
    /\ pc' = "attempt"
    /\ caller' = "generateBoard"
    /\ attempts' = 0
    /\ positions' = l
    /\ tilePairs' \in TilePairsFor(l)
    /\ tileIdCounter' = 0
    /\ logged' = FALSE
    /\ degraded' = FALSE
    /\ layout' = <<>>
    /\ tiles' = <<>>
    /\ FreshSession
    /\ Scoring(score' = 0 /\ combo' = 0 /\ lastMatchTime' = 0)
    /\ UNCHANGED <<attempt, exact, clock>>

\* The page is loaded again: engine.ts is evaluated afresh (tileIdCounter = 0) and
\* useGameState restores the game saveGameState wrote at the last change of a game
\* that was not complete.
Reload ==
    /\ pc = "play"
    /\ ~isComplete
    /\ tileIdCounter' = 0
    /\ IF scored
       THEN score' = score /\ combo' = 0 /\ lastMatchTime' = 0 /\ timerDue' = 0
       ELSE UNCHANGED <<scoring, timerDue>>
    /\ UNCHANGED <<board, session, pc, call, attempt, degraded, logged, exact, clock>>

TileIdInputs == {tiles[i].id : i \in DOMAIN tiles} \cup {tileIdCounter + 1}

Next ==
    \/ Generate
    \/ \E tileId \in TileIdInputs : SelectTile(tileId)
    \/ Undo
    \/ Shuffle
    \/ ShowHint
    \/ \E l \in SessionLayouts : NewGame(l)
    \/ Reload

Spec == Init /\ [][Next]_vars

(***************************************************************************)
(* The session with its score and combo kept, on a clock.  The combo-decay *)
(* timeout is set by an effect and fires once it is due, between two       *)
(* operations of the user.                                                 *)
(***************************************************************************)
\* time passes between two operations (generateBoard and shuffleBoard run
\* inside one operation, and only selectTile reads the clock)
Tick ==
    /\ pc = "play"
    /\ now < MaxNow
    /\ now' = now + TickMs
    /\ UNCHANGED <<board, session, tileIdCounter, pc, call, attempt, degraded, logged, exact,
                   scoring, timerDue, scored>>

\* the timeout callback: setGameState(prev => ({ ...prev, combo: 0 }))
ComboDecay ==
    /\ pc = "play"
    /\ timerDue # 0
    /\ now >= timerDue
    /\ combo' = 0
    /\ timerDue' = 0
    /\ UNCHANGED <<board, session, tileIdCounter, pc, call, attempt, degraded, logged, exact,
                   score, lastMatchTime, clock>>

\* three positions apart from each other: every tile on them is free
Spread3 == <<P(0, 0, 0), P(50, 0, 0), P(100, 0, 0)>>

ComboLayouts == {Row4, Spread3}

InitCombo ==
    /\ InitOn(ComboLayouts)
    /\ exact = FALSE
    /\ score = 0
    /\ combo = 0
    /\ lastMatchTime = 0
    /\ timerDue = 0
    /\ now = StartNow
    /\ scored = TRUE

\* the operations of the user, with the clock standing still
NextScore ==
    \/ Generate
    \/ \E tileId \in TileIdInputs : score <= MaxScore /\ SelectTile(tileId)
    \/ Undo
    \/ Shuffle
    \/ ShowHint
    \/ \E l \in ComboLayouts : NewGame(l)

SpecScore == InitCombo /\ [][NextScore]_vars

\* the operations of the user, the clock and the timeout
NextCombo ==
    \/ NextScore
    \/ Tick
    \/ ComboDecay

SpecCombo == InitCombo /\ [][NextCombo]_vars

(***************************************************************************)
(* Generation alone, on the larger layouts.                                *)
(***************************************************************************)
InitGen == InitOn(GenLayouts) /\ exact = FALSE /\ NoScoring

SpecGen == InitGen /\ [][Generate]_vars

(***************************************************************************)
(* The retry loops on their full budgets: generateBoard on a few small     *)
(* layouts, and shuffleBoard on the boards it returns.  The loops are      *)
(* sequential code, so a step that can be taken is taken.                  *)
(***************************************************************************)
TermLayouts == {SingleLayout, Tower2, Row3, Cap4}

InitTerm == InitOn(TermLayouts) /\ exact = TRUE /\ NoScoring

NextTerm == Generate \/ Shuffle

SpecTerm == InitTerm /\ [][NextTerm]_vars /\ WF_vars(Generate)

(***************************************************************************)
(* Generation on the layouts above and on the first pillar of the bridge   *)
(* layout, whose loop pushes each of its two positions twice.              *)
(***************************************************************************)
BridgePillar == <<P(10, 0, 0), P(10, 70, 0), P(10, 0, 0), P(10, 70, 0)>>

PlaceLayouts == GenLayouts \cup {BridgePillar}

InitPlace == InitOn(PlaceLayouts) /\ exact = FALSE /\ NoScoring

SpecPlace == InitPlace /\ [][Generate]_vars

(***************************************************************************)
(* generateBoard up to its retry loop: the type list it builds for a       *)
(* layout.  The layouts are grids of every size up to MaxBranching, grids  *)
(* around the full size, and the layouts of the registry.                  *)
(***************************************************************************)
TypeInputs ==
    {Grid(n) : n \in 0..MaxBranching} \cup {Grid(n) : n \in 136..FULL_SET} \cup Range(LAYOUTS)

InitTypes ==
    /\ positions \in TypeInputs
    /\ tilePairs = <<>>
    /\ layout = <<>>
    /\ tiles = <<>>
    /\ selectedTileId = NoTile
    /\ history = <<>>
    /\ tilesRemaining = INITIAL_REMAINING
    /\ matchesMade = 0
    /\ isComplete = FALSE
    /\ isStuck = FALSE
    /\ hintPair = <<>>
    /\ tileIdCounter = 0
    /\ pc = "types"
    /\ caller = "generateBoard"
    /\ attempts = 0
    /\ matchingPairs = <<>>
    /\ occupiedPositions = <<>>
    /\ availablePositions = <<>>
    /\ finalTiles = <<>>
    /\ degraded = FALSE
    /\ logged = FALSE
    /\ exact = FALSE /\ NoScoring

\* generateBoard builds tilePairs and reaches its retry loop
BuildTypes ==
    /\ pc = "types"
    /\ tilePairs' \in TilePairsFor(positions)
    /\ pc' = "typed"
    /\ UNCHANGED <<board, session, tileIdCounter, caller, attempts, positions, attempt,
                   degraded, logged, exact, scoring, timerDue, clock>>

SpecTypes == InitTypes /\ [][BuildTypes]_vars

(***************************************************************************)
(* The placement algorithm on a row of four holding two pairs of two       *)
(* distinct types: shuffleBoard called on such a board, at the entry of    *)
(* its retry loop.                                                         *)
(***************************************************************************)
\* the type ids of the four tiles: two of one standard type, two of another
Row4TypeIds ==
    {ty \in [1..4 -> 1..3] :
        \E a, b \in 1..3 :
            /\ a # b
            /\ Cardinality({i \in 1..4 : ty[i] = a}) = 2
            /\ Cardinality({i \in 1..4 : ty[i] = b}) = 2}

InitRow4 ==
    /\ \E ty \in Row4TypeIds :
          /\ tiles = [i \in 1..4 |-> Tile(i, ty[i], Row4[i])]
          /\ tilePairs = [i \in 1..4 |-> getTileTypeById(ty[i])]
    /\ layout = Row4
    /\ positions = Row4
    /\ selectedTileId = NoTile
    /\ history = <<>>
    /\ tilesRemaining = INITIAL_REMAINING
    /\ matchesMade = 0
    /\ isComplete = FALSE
    /\ isStuck = FALSE
    /\ hintPair = <<>>
    /\ tileIdCounter = Len(Row4)
    /\ pc = "attempt"
    /\ caller = "shuffleBoard"
    /\ attempts = 0
    /\ matchingPairs = <<>>
    /\ occupiedPositions = <<>>
    /\ availablePositions = <<>>
    /\ finalTiles = <<>>
    /\ degraded = FALSE
    /\ logged = FALSE
    /\ exact = FALSE /\ NoScoring

SpecRow4 == InitRow4 /\ [][Generate]_vars


(***************************************************************************)
(* The occlusion model and the match finder as functions of a tile list:   *)
(* four tiles, a centre tile with one tile to its left, one to its right   *)
(* and one above, below or beside it, at integer and half-integer offsets, *)
(* any of them removed, their types taken from a few type patterns.        *)
(***************************************************************************)
Centre == P(20, 10, 10)

SideOffsets == {5, 10, 15}

RowOffsets == {0, 5, 10}

LeftPool == {P(Centre.x - dx, Centre.y + dy, Centre.z) : dx \in SideOffsets, dy \in RowOffsets}

RightPool == {P(Centre.x + dx, Centre.y + dy, Centre.z) : dx \in SideOffsets, dy \in RowOffsets}

ExtraPool ==
    {P(Centre.x + dx, Centre.y + dy, Centre.z + 10) : dx \in {-10, -5, 0, 5}, dy \in RowOffsets}
    \cup {P(Centre.x, Centre.y, Centre.z - 10),
          P(Centre.x - 10, Centre.y - 5, Centre.z),
          P(Centre.x + 5, Centre.y - 5, Centre.z)}

\* type ids of <<centre, left, right, extra>>: one type, two types, and the two
\* bonus groups (35, 36 flowers; 39 a season)
TypePatterns ==
    {<<1, 1, 1, 1>>, <<1, 2, 1, 2>>, <<1, 1, 2, 2>>, <<35, 36, 1, 1>>, <<35, 39, 35, 1>>,
     <<1, 35, 2, 36>>}

TileLists ==
    {[i \in 1..4 |-> [Tile(i, ty[i], <<Centre, l, r, e>>[i]) EXCEPT !.isRemoved = rm[i]]] :
        l \in LeftPool, r \in RightPool, e \in ExtraPool,
        ty \in TypePatterns, rm \in [1..4 -> BOOLEAN]}

InitTiles ==
    /\ tiles \in TileLists
    /\ layout = [i \in DOMAIN tiles |-> PosOf(tiles[i])]
    /\ selectedTileId = NoTile
    /\ history = <<>>
    /\ tilesRemaining = INITIAL_REMAINING
    /\ matchesMade = 0
    /\ isComplete = FALSE
    /\ isStuck = FALSE
    /\ hintPair = <<>>
    /\ tileIdCounter = Len(tiles)
    /\ pc = "tiles"
    /\ caller = "generateBoard"
    /\ attempts = 0
    /\ positions = <<>>
    /\ tilePairs = <<>>
    /\ matchingPairs = <<>>
    /\ occupiedPositions = <<>>
    /\ availablePositions = <<>>
    /\ finalTiles = <<>>
    /\ degraded = FALSE
    /\ logged = FALSE
    /\ exact = FALSE /\ NoScoring

\* removeTilePair applied to any two ids, on the list or not
RemoveTilePair(tile1Id, tile2Id) ==
    /\ pc = "tiles"
    /\ tiles' = removeTilePair(tiles, tile1Id, tile2Id)
    /\ UNCHANGED <<layout, session, tileIdCounter, pc, call, attempt, degraded, logged, exact, scoring, timerDue, clock>>

NextTiles == \E tile1Id, tile2Id \in TileIdInputs : RemoveTilePair(tile1Id, tile2Id)

SpecTiles == InitTiles /\ [][NextTiles]_vars


(***************************************************************************)
(* Properties of generated boards.                                         *)
(***************************************************************************)
\* generateBoard has just returned its board
Generated == pc = "play" /\ caller = "generateBoard" /\ matchesMade = 0 /\ Len(history) = 0

TypeOfTile(t) == getTileTypeById(t.typeId)

\* the pairs of distinct tiles that are both free and match
LegalPairs(ts) ==
    {p \in (DOMAIN ts) \X (DOMAIN ts) :
        /\ p[1] < p[2]
        /\ isFreeTile(ts[p[1]], ts)
        /\ isFreeTile(ts[p[2]], ts)
        /\ tilesMatch(TypeOfTile(ts[p[1]]), TypeOfTile(ts[p[2]]))}

\* some sequence of legal removals clears the list
RECURSIVE Solvable(_)
Solvable(ts) ==
    \/ checkWin(ts)
    \/ \E p \in LegalPairs(ts) : Solvable(removeTilePair(ts, ts[p[1]].id, ts[p[2]].id))

KeyCount(ts, key) == Cardinality({i \in DOMAIN ts : MatchKey(TypeOfTile(ts[i])) = key})

EvenKeyCounts(ts) == \A i \in DOMAIN ts : KeyCount(ts, MatchKey(TypeOfTile(ts[i]))) % 2 = 0

\* C1: every board generateBoard returns from a successful reverse-simulation
\* attempt can be cleared by some sequence of removals of two free, matching tiles.
C1_SolvableWhenNotDegraded == (Generated /\ ~degraded) => Solvable(tiles)

\* C2: on a layout with at least one position the board generateBoard returns is
\* not stuck: a pair of free, matching tiles exists.
C2_FirstMoveExists == (Generated /\ Len(layout) >= 1) => ~checkStuck(tiles)

\* C3: whatever generateBoard, the removals, shuffleBoard and undo did, the board
\* holds exactly one tile per layout position and as many tiles as positions.
C3_OneTilePerPosition ==
    pc = "play" =>
        /\ Len(tiles) = Len(layout)
        /\ \A i \in DOMAIN layout :
               Cardinality({j \in DOMAIN tiles : PosOf(tiles[j]) = layout[i]}) = 1

\* C4 as stated: on the board generateBoard returns, for any layout, every match
\* key occurs an even number of times.
C4_EvenKeyCountsAnyLayout == Generated => EvenKeyCounts(tiles)

\* C4 as amended: on the board generateBoard returns for a layout with an even
\* number of positions, every match key occurs an even number of times.
C4_EvenKeyCountsEvenLayout == (Generated /\ Len(layout) % 2 = 0) => EvenKeyCounts(tiles)

C4_Witness ==
    /\ Generated
    /\ Len(layout) = 6
    /\ degraded
    /\ \E i, j \in DOMAIN tiles : tiles[i].typeId # tiles[j].typeId

\* C5: on the non-degraded path the board generateBoard returns carries exactly
\* the types of the list generateBoard built, each as often as the list has it,
\* and every match key an even number of times.
C5_TypeMultisetKept ==
    (Generated /\ ~degraded) =>
        /\ \A ty \in DOMAIN ALL_TILE_TYPES :
               Cardinality({i \in DOMAIN tiles : tiles[i].typeId = ty})
                   = Cardinality({i \in DOMAIN tilePairs : tilePairs[i].id = ty})
        /\ EvenKeyCounts(tiles)

C5_Witness ==
    /\ Generated
    /\ ~degraded
    /\ Len(tiles) = 6
    /\ \E i, j \in DOMAIN tiles : tiles[i].typeId # tiles[j].typeId


(***************************************************************************)
(* Properties of the occlusion model and the match finder.                 *)
(***************************************************************************)
\* the other non-removed tiles of the list, by their place in it
Others(ts, i) == {j \in DOMAIN ts : j # i /\ ~ts[j].isRemoved}

CoveredAbove(ts, i) ==
    \E j \in Others(ts, i) :
        ts[j].z > ts[i].z /\ Abs(ts[j].x - ts[i].x) < 9 /\ Abs(ts[j].y - ts[i].y) < 9

LeftNeighbours(ts, i) ==
    {j \in Others(ts, i) :
        /\ ts[j].z = ts[i].z
        /\ Abs(ts[j].y - ts[i].y) < 9
        /\ 0 < ts[i].x - ts[j].x
        /\ ts[i].x - ts[j].x < 11}

RightNeighbours(ts, i) ==
    {j \in Others(ts, i) :
        /\ ts[j].z = ts[i].z
        /\ Abs(ts[j].y - ts[i].y) < 9
        /\ 0 < ts[j].x - ts[i].x
        /\ ts[j].x - ts[i].x < 11}

MarkRemoved(ts, j) == removeTilePair(ts, ts[j].id, ts[j].id)

HalfOffset(ts, i, j) == (ts[i].x - ts[j].x) % 10 = 5 \/ (ts[i].y - ts[j].y) % 10 = 5

\* C6: isFreeTile(t, tiles) is true exactly when t is not removed, no other
\* non-removed tile lies above it (greater z, |dx| < 0.9, |dy| < 0.9), and it does
\* not have both a left and a right neighbour (same z, |dy| < 0.9, x-distance in
\* (0, 1.1)) among the other non-removed tiles.
C6_FreeCharacterisation ==
    pc = "tiles" =>
        \A i \in DOMAIN tiles :
            isFreeTile(tiles[i], tiles)
                <=> /\ ~tiles[i].isRemoved
                    /\ ~CoveredAbove(tiles, i)
                    /\ ~(LeftNeighbours(tiles, i) # {} /\ RightNeighbours(tiles, i) # {})

C6_Witness ==
    /\ pc = "tiles"
    /\ \E i \in DOMAIN tiles :
          /\ ~tiles[i].isRemoved
          /\ ~CoveredAbove(tiles, i)
          /\ ~isFreeTile(tiles[i], tiles)
          /\ \E j \in LeftNeighbours(tiles, i) : HalfOffset(tiles, i, j)
          /\ \E j \in RightNeighbours(tiles, i) : ~HalfOffset(tiles, i, j)

\* C7: isFreeTile is false for every removed tile, and the removed tiles of the
\* list never block: the value for any tile is the one computed on the list with
\* its removed tiles deleted, so adding, deleting or moving removed tiles changes
\* nothing.
C7_RemovedTilesInert ==
    pc = "tiles" =>
        \A i \in DOMAIN tiles :
            /\ tiles[i].isRemoved => ~isFreeTile(tiles[i], tiles)
            /\ isFreeTile(tiles[i], tiles) <=> isFreeTile(tiles[i], ActiveTiles(tiles))

C7_Witness ==
    /\ pc = "tiles"
    /\ \E i, r \in DOMAIN tiles :
          /\ isFreeTile(tiles[i], tiles)
          /\ tiles[r].isRemoved
          /\ tiles[r].z > tiles[i].z
          /\ Abs(tiles[r].x - tiles[i].x) < 9
          /\ Abs(tiles[r].y - tiles[i].y) < 9

\* C8 as stated: a non-removed tile with a non-removed neighbour on its left and
\* another on its right is not free, and is free after either of the two is
\* marked removed.
C8_NeighbourRemovalFrees ==
    pc = "tiles" =>
        \A i \in DOMAIN tiles : \A l \in LeftNeighbours(tiles, i) : \A r \in RightNeighbours(tiles, i) :
            ~tiles[i].isRemoved =>
                /\ ~isFreeTile(tiles[i], tiles)
                /\ isFreeTile(tiles[i], MarkRemoved(tiles, l))
                /\ isFreeTile(tiles[i], MarkRemoved(tiles, r))

\* C8 as amended: such a tile is not free, and after one of the two neighbours is
\* marked removed it is free exactly when no non-removed tile lies above it and
\* no other non-removed neighbour is left on the side of the removed one.
C8_NeighbourRemovalFreesUncovered ==
    pc = "tiles" =>
        \A i \in DOMAIN tiles : \A l \in LeftNeighbours(tiles, i) : \A r \in RightNeighbours(tiles, i) :
            ~tiles[i].isRemoved =>
                /\ ~isFreeTile(tiles[i], tiles)
                /\ isFreeTile(tiles[i], MarkRemoved(tiles, l))
                       <=> (~CoveredAbove(tiles, i) /\ LeftNeighbours(tiles, i) = {l})
                /\ isFreeTile(tiles[i], MarkRemoved(tiles, r))
                       <=> (~CoveredAbove(tiles, i) /\ RightNeighbours(tiles, i) = {r})

C8_Witness ==
    /\ pc = "tiles"
    /\ \E i \in DOMAIN tiles : \E l \in LeftNeighbours(tiles, i) : \E r \in RightNeighbours(tiles, i) :
          /\ ~tiles[i].isRemoved
          /\ ~CoveredAbove(tiles, i)
          /\ ~isFreeTile(tiles[i], tiles)
          /\ isFreeTile(tiles[i], MarkRemoved(tiles, r))
          /\ ~isFreeTile(tiles[i], MarkRemoved(tiles, l))

\* C9: removal never takes freeness away: a non-removed free tile is still free
\* after any other tiles of the list are marked removed by removeTilePair.
C9_FreenessMonotone ==
    pc = "tiles" =>
        \A i \in DOMAIN tiles : \A b, c \in DOMAIN tiles \ {i} :
            (~tiles[i].isRemoved /\ ~tiles[b].isRemoved /\ isFreeTile(tiles[i], tiles))
                => LET after == removeTilePair(tiles, tiles[b].id, tiles[c].id)
                   IN isFreeTile(after[i], after)

C9_Witness ==
    /\ pc = "tiles"
    /\ \E i \in DOMAIN tiles : \E b \in LeftNeighbours(tiles, i) : \E r \in DOMAIN tiles :
          /\ isFreeTile(tiles[i], tiles)
          /\ tiles[r].isRemoved
          /\ tiles[r].z = tiles[i].z
          /\ Abs(tiles[r].y - tiles[i].y) < 9
          /\ 0 < tiles[r].x - tiles[i].x
          /\ tiles[r].x - tiles[i].x < 11

\* the catalog's match rule: the same non-null match group, or the identical type
\* when no group is set
SameGroupOrType(typeId1, typeId2) ==
    LET g1 == ALL_TILE_TYPES[typeId1].matchGroup
        g2 == ALL_TILE_TYPES[typeId2].matchGroup
    IN IF g1 # NoGroup THEN g1 = g2 ELSE typeId1 = typeId2

\* C10: every pair findAllMatches returns consists of two distinct non-removed
\* tiles of the list, both free per isFreeTile on that list, whose types match.
C10_MatchesAreFreePairs ==
    pc = "tiles" =>
        LET matches == findAllMatches(tiles) IN
        \A k \in DOMAIN matches :
            LET t1 == matches[k][1]
                t2 == matches[k][2]
            IN /\ t1.id # t2.id
               /\ t1 \in Range(tiles) /\ t2 \in Range(tiles)
               /\ ~t1.isRemoved /\ ~t2.isRemoved
               /\ isFreeTile(t1, tiles) /\ isFreeTile(t2, tiles)
               /\ SameGroupOrType(t1.typeId, t2.typeId)

C10_Witness ==
    /\ pc = "tiles"
    /\ \E k \in DOMAIN findAllMatches(tiles) :
          findAllMatches(tiles)[k][1].typeId # findAllMatches(tiles)[k][2].typeId
    /\ \E i \in DOMAIN tiles : \E j \in DOMAIN tiles \ {i} :
          /\ ~tiles[i].isRemoved
          /\ ~isFreeTile(tiles[i], tiles)
          /\ isFreeTile(tiles[j], tiles)
          /\ tilesMatch(TypeOfTile(tiles[i]), TypeOfTile(tiles[j]))

\* the pairs <<i, j>>, i < j, of places of the list that hold two free tiles
\* whose types match
FreeMatchingPlaces(ts) ==
    {p \in (DOMAIN ts) \X (DOMAIN ts) :
        /\ p[1] < p[2]
        /\ isFreeTile(ts[p[1]], ts)
        /\ isFreeTile(ts[p[2]], ts)
        /\ SameGroupOrType(ts[p[1]].typeId, ts[p[2]].typeId)}

\* the place of the tile with this id (ids are distinct on a board)
PlaceOf(ts, id) == CHOOSE i \in DOMAIN ts : ts[i].id = id

Before(p, q) == p[1] < q[1] \/ (p[1] = q[1] /\ p[2] < q[2])

\* C11: findAllMatches is complete and ordered: every unordered pair of distinct
\* free matching tiles is in the result exactly once (first the tile that comes
\* first in the list), the result holds nothing else, and the pairs are in
\* ascending (outer place, inner place) order of the input list.
C11_MatchesCompleteOrdered ==
    pc = "tiles" =>
        LET matches == findAllMatches(tiles)
            place(k) == <<PlaceOf(tiles, matches[k][1].id), PlaceOf(tiles, matches[k][2].id)>>
        IN /\ \A p \in FreeMatchingPlaces(tiles) :
                  Cardinality({k \in DOMAIN matches :
                                  {matches[k][1], matches[k][2]} = {tiles[p[1]], tiles[p[2]]}}) = 1
           /\ Len(matches) = Cardinality(FreeMatchingPlaces(tiles))
           /\ \A k \in DOMAIN matches : place(k) \in FreeMatchingPlaces(tiles)
           /\ \A k, m \in DOMAIN matches : k < m => Before(place(k), place(m))

\* three matches or more on a list whose first tile is not free
C11_Witness ==
    /\ pc = "tiles"
    /\ Len(findAllMatches(tiles)) >= 3
    /\ \E i \in DOMAIN tiles : ~tiles[i].isRemoved /\ ~isFreeTile(tiles[i], tiles)
    /\ findAllMatches(tiles)[1][1].id # tiles[1].id

\* the first pair of free matching places, in (outer, inner) order
FirstPlaces(ts) ==
    CHOOSE p \in FreeMatchingPlaces(ts) : \A q \in FreeMatchingPlaces(ts) \ {p} : Before(p, q)

\* C12: getHint returns null exactly when findAllMatches is empty; otherwise it
\* returns the ids of the first pair of findAllMatches, which is the first pair of
\* free matching tiles in list order.
C12_HintIsFirstMatch ==
    pc = "tiles" =>
        LET matches == findAllMatches(tiles) IN
        /\ getHint(tiles) = <<>> <=> Len(matches) = 0
        /\ Len(matches) > 0 =>
               /\ getHint(tiles) = <<matches[1][1].id, matches[1][2].id>>
               /\ getHint(tiles) = <<tiles[FirstPlaces(tiles)[1]].id, tiles[FirstPlaces(tiles)[2]].id>>

C12_Witness ==
    /\ pc = "tiles"
    /\ Len(findAllMatches(tiles)) >= 2
    /\ getHint(tiles) # <<>>
    /\ getHint(tiles)[1] # tiles[1].id

\* C13: checkWin is true iff every tile of the list is removed (so it is true for
\* the empty list); checkStuck is false whenever checkWin is true, and otherwise
\* true iff findAllMatches is empty.
C13_WinAndStuck ==
    pc = "tiles" =>
        \A ts \in {tiles, ActiveTiles(tiles), RemovedTiles(tiles), <<>>} :
            /\ checkWin(ts) <=> {i \in DOMAIN ts : ~ts[i].isRemoved} = {}
            /\ ts = <<>> => checkWin(ts)
            /\ checkWin(ts) => ~checkStuck(ts)
            /\ ~checkWin(ts) => (checkStuck(ts) <=> FreeMatchingPlaces(ts) = {})

\* a list with tiles left, one of them free, and no match
C13_Witness ==
    /\ pc = "tiles"
    /\ ~checkWin(tiles)
    /\ checkStuck(tiles)
    /\ \E i \in DOMAIN tiles : isFreeTile(tiles[i], tiles)
    /\ \E i \in DOMAIN tiles : tiles[i].isRemoved

\* C14: removeTilePair returns a list of the same length and order in which the
\* tiles whose id is one of the two ids are removed and every other tile is the
\* tile of the input; whether the two tiles are free or match is not looked at,
\* and an id that is absent or belongs to a removed tile changes nothing.
C14_RemovePairFrame ==
    pc = "tiles" =>
        \A id1, id2 \in TileIdInputs :
            LET out == removeTilePair(tiles, id1, id2)
                named(i) == tiles[i].id = id1 \/ tiles[i].id = id2
            IN /\ Len(out) = Len(tiles)
               /\ \A i \in DOMAIN tiles :
                      /\ out[i].id = tiles[i].id
                      /\ out[i].typeId = tiles[i].typeId
                      /\ PosOf(out[i]) = PosOf(tiles[i])
                      /\ out[i].isRemoved = (named(i) \/ tiles[i].isRemoved)
               /\ (\A i \in DOMAIN tiles : named(i) => tiles[i].isRemoved) => out = tiles

\* a tile that is not free, one that is removed and an id that is not on the list
C14_Witness ==
    /\ pc = "tiles"
    /\ \E i \in DOMAIN tiles : ~tiles[i].isRemoved /\ ~isFreeTile(tiles[i], tiles)
    /\ \E i \in DOMAIN tiles : tiles[i].isRemoved
    /\ \E id \in TileIdInputs : \A i \in DOMAIN tiles : tiles[i].id # id


(***************************************************************************)
(* Properties of shuffleBoard and of the retry loops.                      *)
(***************************************************************************)
\* the step in which generateBoard / shuffleBoard returns its board: tiles is
\* the board the call was given, tiles' the board it returns
Returns == pc # "play" /\ pc' = "play"

ShuffleReturns == Returns /\ caller = "shuffleBoard"

ActivePositionSet(ts) == {PosOf(ts[i]) : i \in {j \in DOMAIN ts : ~ts[j].isRemoved}}

ActiveTypeCount(ts, typeId) ==
    Cardinality({i \in DOMAIN ts : ~ts[i].isRemoved /\ ts[i].typeId = typeId})

CarriedOver(ts) == SelectSeq(ts, LAMBDA t : t.isRemoved)

DistinctIds(ts) == \A i, j \in DOMAIN ts : i # j => ts[i].id # ts[j].id

\* C15: the board shuffleBoard returns has the active positions of the board it
\* was given, and each type on as many active tiles as before, on the
\* reverse-simulation path and on the random-permutation path.
C15_ShuffleKeepsActive ==
    [][ShuffleReturns =>
          /\ ActivePositionSet(tiles') = ActivePositionSet(tiles)
          /\ \A typeId \in DOMAIN ALL_TILE_TYPES :
                 ActiveTypeCount(tiles', typeId) = ActiveTypeCount(tiles, typeId)]_vars

\* C16: shuffleBoard carries the removed tiles of its input into its output
\* unchanged (id, typeId, position, isRemoved) and in their order, and keeps the
\* layout.
C16_ShuffleCarriesRemoved ==
    [][ShuffleReturns =>
          /\ CarriedOver(tiles') = CarriedOver(tiles)
          /\ layout' = layout]_vars

\* a shuffle has returned a board with removed and with active tiles
C16_Witness ==
    /\ pc = "play"
    /\ caller = "shuffleBoard"
    /\ matchesMade = 1
    /\ Len(CarriedOver(tiles)) = 2
    /\ Len(ActiveTiles(tiles)) = 2
    /\ \E i \in DOMAIN tiles : ~tiles[i].isRemoved /\ tiles[i].id > Len(layout)

\* C17: every active tile of the board shuffleBoard returns has an id that no
\* tile of the board it was given had, active or removed.
C17_ShuffleIssuesNewIds ==
    [][ShuffleReturns =>
          \A i \in DOMAIN tiles' : ~tiles'[i].isRemoved =>
              \A j \in DOMAIN tiles : tiles[j].id # tiles'[i].id]_vars

\* C18: in every board generateBoard or shuffleBoard returns the tile ids are
\* pairwise distinct, the carried-over removed tiles included, and the ids of
\* the tiles the call issued ascend in the order they were issued.
C18_DistinctAscendingIds ==
    [][Returns =>
          /\ DistinctIds(tiles')
          /\ LET issued == ActiveTiles(tiles')
             IN \A i, j \in DOMAIN issued : i < j => issued[i].id < issued[j].id]_vars

FullBudget == IF caller = "generateBoard" THEN GEN_ATTEMPTS ELSE SHUFFLE_ATTEMPTS

\* C19: generateBoard and shuffleBoard always return a board: generateBoard makes
\* at most 50 attempts and shuffleBoard at most 20, an attempt makes at most one
\* placement step per pair, the fallback board is returned exactly when every
\* attempt of the budget has failed, and every call that has started returns.
C19_LoopsTerminate ==
    /\ [](attempts <= FullBudget)
    /\ [](pc = "place" =>
             Len(finalTiles) + 2 * Len(matchingPairs) = 2 * Len(BuildMatchingPairs(tilePairs)))
    /\ []((pc = "play" /\ degraded) => attempts = FullBudget)
    /\ ((pc # "play") ~> (pc = "play"))

\* shuffleBoard has returned its fallback board after twenty failed attempts
C19_Witness ==
    /\ pc = "play"
    /\ caller = "shuffleBoard"
    /\ degraded
    /\ attempts = SHUFFLE_ATTEMPTS
    /\ tileIdCounter > SHUFFLE_ATTEMPTS

\* C20: a board that came from the fallback path of generateBoard or of
\* shuffleBoard was flagged by a log event during that call, and a board from a
\* successful attempt was not.
C20_FallbackLogged == pc = "play" => (degraded <=> logged)


(***************************************************************************)
(* Properties of the placement algorithm.                                  *)
(***************************************************************************)
\* C21: on every board the placement algorithm produces for the row of four
\* with two pairs of two distinct types, the tiles at x = 0 and x = 3 are free,
\* a pair can be removed, and after any removal of a pair the remaining two tiles
\* are free and match, so that two removals reach checkWin.
C21_Row4AlwaysSolves ==
    (pc = "play" /\ ~degraded /\ layout = Row4 /\ caller = "shuffleBoard") =>
        /\ \A i \in DOMAIN tiles : tiles[i].x \in {0, 30} => isFreeTile(tiles[i], tiles)
        /\ LegalPairs(tiles) # {}
        /\ \A p \in LegalPairs(tiles) :
               LET rest == removeTilePair(tiles, tiles[p[1]].id, tiles[p[2]].id)
               IN /\ LegalPairs(rest) # {}
                  /\ \A q \in LegalPairs(rest) :
                         checkWin(removeTilePair(rest, rest[q[1]].id, rest[q[2]].id))

(***************************************************************************)
(* Properties of the layout registry and of the type list.                 *)
(***************************************************************************)
\* C22: no game is started on a layout of the registry that validateLayout
\* rejects: whenever generateBoard has been entered with a layout of LAYOUTS,
\* that layout has between 140 and 144 positions.
C22_NoGameOnInvalidLayout ==
    (pc = "typed" /\ positions \in Range(LAYOUTS)) => validateLayout(positions)

(***************************************************************************)
(* Properties of the session.                                              *)
(***************************************************************************)
\* C23: what a call of generateBoard or shuffleBoard returns depends on its
\* input and its random draws only, not on the calls made before it: between
\* two states of a running game that hold the same board, on which the same
\* call with the same draws can be made, the value the call numbers its tiles
\* from (tileIdCounter) is the same.
C23_SameBoardSameNumbering ==
    [][(pc = "play" /\ pc' = "play" /\ ~isComplete /\ tiles' = tiles /\ layout' = layout)
           => tileIdCounter' = tileIdCounter]_vars

\* a step of selectTile that removes a pair
MatchMade == pc = "play" /\ pc' = "play" /\ matchesMade' = matchesMade + 1

\* C24: every call of removeTilePair that selectTile makes is on two distinct
\* tiles of the current board, the selected one and another, that are both not
\* removed, both free per isFreeTile on that board, and of matching types.
C24_RemovalsAreLegal ==
    [][MatchMade =>
          LET s == FindTile(tiles, selectedTileId, 1)
          IN /\ s # 0
             /\ \E i \in DOMAIN tiles \ {s} :
                   /\ tiles' = removeTilePair(tiles, tiles[s].id, tiles[i].id)
                   /\ ~tiles[s].isRemoved /\ ~tiles[i].isRemoved
                   /\ isFreeTile(tiles[s], tiles) /\ isFreeTile(tiles[i], tiles)
                   /\ tilesMatch(getTileTypeById(tiles[s].typeId),
                                 getTileTypeById(tiles[i].typeId))]_vars

\* a pair was removed from a board that held a blocked tile, and tiles remain
C24_Witness ==
    /\ pc = "play"
    /\ matchesMade = 1
    /\ ~isComplete
    /\ \E i \in DOMAIN history[1] :
          ~history[1][i].isRemoved /\ ~isFreeTile(history[1][i], history[1])

\* C25: whenever the session holds a board (after createGameState / newGame,
\* after a match, after undo and after shuffle), isStuck equals
\* checkStuck(board.tiles).
C25_StuckTracksBoard == pc = "play" => isStuck = checkStuck(tiles)

\* the first k pairs of ts, in placement order, removed last pair first: each
\* pair free and matching when its turn comes, and the board won at the end
RECURSIVE ReverseSolves(_, _)
ReverseSolves(ts, k) ==
    IF k = 0 THEN checkWin(ts)
    ELSE /\ isFreeTile(ts[2 * k - 1], ts)
         /\ isFreeTile(ts[2 * k], ts)
         /\ tilesMatch(getTileTypeById(ts[2 * k - 1].typeId), getTileTypeById(ts[2 * k].typeId))
         /\ ReverseSolves(removeTilePair(ts, ts[2 * k - 1].id, ts[2 * k].id), k - 1)

\* C26: for every tile list assignSolvableTypes returns, to generateBoard or to
\* shuffleBoard, removing the pairs in the reverse of their placement order is a
\* legal solve that ends with checkWin.
C26_ReverseOrderSolves ==
    (pc = "place" /\ matchingPairs = <<>>) => ReverseSolves(finalTiles, Len(finalTiles) \div 2)

\* how many entries of s equal e
Count(s, e) == Cardinality({i \in DOMAIN s : s[i] = e})

OthersAt(ts, i) ==
    LET others == ActiveTiles(RemoveAt(ts, i))
    IN [j \in DOMAIN others |-> PosOf(others[j])]

\* C28: for every non-removed tile of a board, isPositionAvailable of its
\* position against the positions of the other non-removed tiles equals
\* isFreeTile of the tile on that board.
C28_AvailableIffFree ==
    pc = "tiles" =>
        \A i \in DOMAIN tiles :
            ~tiles[i].isRemoved =>
                (isPositionAvailable(PosOf(tiles[i]), OthersAt(tiles, i))
                    <=> isFreeTile(tiles[i], tiles))

\* a board with a blocked tile and with a free tile that has a neighbour on one side
C28_Witness ==
    /\ pc = "tiles"
    /\ \E i \in DOMAIN tiles : ~tiles[i].isRemoved /\ ~isFreeTile(tiles[i], tiles)
    /\ \E i \in DOMAIN tiles :
          /\ isFreeTile(tiles[i], tiles)
          /\ hasBlockingLeft(tiles[i], ActiveTiles(tiles)) \/ hasBlockingRight(tiles[i], ActiveTiles(tiles))
    /\ \E i \in DOMAIN tiles : ~tiles[i].isRemoved /\ hasBlockingTop(tiles[i], ActiveTiles(tiles))

(***************************************************************************)
(* Properties of the type list generateBoard builds.                       *)
(***************************************************************************)
\* how many entries of the type list have the type id
CountOfType(list, id) == Cardinality({i \in DOMAIN list : list[i].id = id})

\* the full set: each standard type four times, each grouped bonus type once
IsFullSet(list) ==
    \A i \in DOMAIN ALL_TILE_TYPES :
        LET t == ALL_TILE_TYPES[i]
        IN CountOfType(list, t.id) =
               IF i <= NUM_STANDARD THEN 4 ELSE IF t.matchGroup # NoGroup THEN 1 ELSE 0

\* list, from entry len + 1 on, is made of draws for n positions: each draw a
\* standard type not drawn since the pool was last full (drawn holds those),
\* entered 4 times, or 2 times when fewer than 4 entries are still needed
RECURSIVE DrawnWithoutReplacement(_, _, _, _)
DrawnWithoutReplacement(list, n, len, drawn) ==
    IF len >= n THEN len = Len(list)
    ELSE LET count == IF n - len >= 4 THEN 4 ELSE 2
         IN /\ Len(list) >= len + count
            /\ \A i \in (len + 1)..(len + count) : list[i] = list[len + 1]
            /\ \E i \in DOMAIN STANDARD_TILES : STANDARD_TILES[i] = list[len + 1]
            /\ list[len + 1].id \notin drawn
            /\ DrawnWithoutReplacement(list, n, len + count,
                   IF Cardinality(drawn) + 1 = NUM_STANDARD THEN {}
                   ELSE drawn \cup {list[len + 1].id})

\* what C29 says of the types: the full set for 144 positions, draws without
\* replacement and an even count per type for any other position count
TypeListShape ==
    IF Len(positions) = FULL_SET THEN IsFullSet(tilePairs)
    ELSE /\ DrawnWithoutReplacement(tilePairs, Len(positions), 0, {})
         /\ \A i \in DOMAIN tilePairs : CountOfType(tilePairs, tilePairs[i].id) % 2 = 0

\* C29 as stated: the type list generateBoard builds is the full set for 144
\* positions and is drawn without replacement, 4 or 2 entries per draw, with an
\* even count per type otherwise, and it has exactly as many entries as the
\* layout has positions.
C29_TypeListExactLength ==
    pc = "typed" => (TypeListShape /\ Len(tilePairs) = Len(positions))

\* C29 (amended): the type list generateBoard builds is the full set for 144
\* positions and is drawn without replacement, 4 or 2 entries per draw, with an
\* even count per type otherwise; it has as many entries as the layout has
\* positions when that number is even, and one more when it is odd.
C29_TypeListEvenLength ==
    pc = "typed" => (TypeListShape /\ Len(tilePairs) = Len(positions) + (Len(positions) % 2))

\* a list for an odd layout so large that the pool was refilled
C29_Witness ==
    /\ pc = "typed"
    /\ Len(positions) % 2 = 1
    /\ Len(tilePairs) > 4 * NUM_STANDARD

\* C30 (state part): in every session state selectedTileId is null or the id of
\* a tile of the current board that is not removed and is free per isFreeTile.
C30_SelectionIsFreeTile ==
    pc = "play" =>
        \/ selectedTileId = NoTile
        \/ \E i \in DOMAIN tiles :
              /\ tiles[i].id = selectedTileId
              /\ ~tiles[i].isRemoved
              /\ isFreeTile(tiles[i], tiles)

\* C30 (step part): every operation that changes the board (a match, undo,
\* shuffle, newGame) leaves selectedTileId null.
C30_BoardChangeClearsSelection ==
    [][(tiles' # tiles /\ pc' = "play") => selectedTileId' = NoTile]_vars

\* C30: the state part in every state and the step part in every step.
C30_Selection == []C30_SelectionIsFreeTile /\ C30_BoardChangeClearsSelection

\* a tile is selected on a board that came out of a shuffle and holds a
\* blocked tile
C30_Witness ==
    /\ pc = "play"
    /\ selectedTileId # NoTile
    /\ caller = "shuffleBoard"
    /\ \E i \in DOMAIN tiles : ~tiles[i].isRemoved /\ ~isFreeTile(tiles[i], tiles)

\* C31 (state part): in every session state hintPair is null or the ids of the
\* first element of findAllMatches on the current board, two distinct tiles
\* that are not removed, free and matching.
C31_HintIsCurrent ==
    pc = "play" =>
        \/ hintPair = <<>>
        \/ /\ Len(findAllMatches(tiles)) > 0
           /\ hintPair = <<findAllMatches(tiles)[1][1].id, findAllMatches(tiles)[1][2].id>>
           /\ \E a, b \in DOMAIN tiles :
                 /\ a # b
                 /\ hintPair = <<tiles[a].id, tiles[b].id>>
                 /\ ~tiles[a].isRemoved /\ ~tiles[b].isRemoved
                 /\ isFreeTile(tiles[a], tiles) /\ isFreeTile(tiles[b], tiles)
                 /\ tilesMatch(getTileTypeById(tiles[a].typeId), getTileTypeById(tiles[b].typeId))

\* C31 (step part): every operation that changes the board (a match, undo,
\* shuffle, newGame) leaves hintPair null.
C31_BoardChangeClearsHint ==
    [][(tiles' # tiles /\ pc' = "play") => hintPair' = <<>>]_vars

\* C31: the state part in every state and the step part in every step.
C31_Hint == []C31_HintIsCurrent /\ C31_BoardChangeClearsHint

\* a hint is on display on a board that came out of a shuffle and holds a
\* blocked tile
C31_Witness ==
    /\ pc = "play"
    /\ hintPair # <<>>
    /\ caller = "shuffleBoard"
    /\ \E i \in DOMAIN tiles : ~tiles[i].isRemoved /\ ~isFreeTile(tiles[i], tiles)

\* C32: in every session state tilesRemaining equals the number of non-removed
\* tiles on the board, whatever the layout.
C32_RemainingCountsBoard ==
    pc = "play" => tilesRemaining = Cardinality({i \in DOMAIN tiles : ~tiles[i].isRemoved})

\* C33 (state part): history.length equals matchesMade, which is never negative.
C33_HistoryCountsMatches == Len(history) = matchesMade /\ matchesMade >= 0

\* C33 (step part): undo with an empty history changes nothing at all, and
\* shuffle (its call of shuffleBoard included) and showHint change neither
\* history nor matchesMade.
C33_Frames ==
    [][/\ (Undo /\ Len(history) = 0) => UNCHANGED vars
       /\ (Shuffle \/ ShowHint \/ (Generate /\ caller = "shuffleBoard"))
              => UNCHANGED <<history, matchesMade>>]_vars

\* C33: the state part in every state and the step part in every step.
C33_History == []C33_HistoryCountsMatches /\ C33_Frames

\* a board that was shuffled with a match on the history
C33_Witness ==
    /\ pc = "play"
    /\ caller = "shuffleBoard"
    /\ matchesMade >= 1
    /\ ~isComplete

\* C34 (state part): on a non-empty layout isComplete is true exactly when
\* checkWin(board.tiles) is.
C34_CompleteIffWon ==
    (pc = "play" /\ Len(layout) >= 1) => (isComplete <=> checkWin(tiles))

\* C34 (step part): once the game is complete selectTile changes nothing, and
\* only undo or newGame make isComplete false again.
C34_CompleteIsKept ==
    [][isComplete =>
          /\ (\E tileId \in TileIdInputs : SelectTile(tileId)) => UNCHANGED vars
          /\ ~isComplete' =>
                 \/ matchesMade' = matchesMade - 1 /\ tiles' = history[Len(history)]
                 \/ pc' = "attempt" /\ caller' = "generateBoard"]_vars

\* C34: the state part in every state and the step part in every step.
C34_Completion == []C34_CompleteIffWon /\ C34_CompleteIsKept

\* C35: the history is a stack of board snapshots that no operation alters.  A
\* step leaves it alone (selections, hints, shuffles), or is a match, which
\* pushes the tile list it found and moves the counters by -2 and +1, or an
\* undo, which pops the last snapshot, makes it the board again and moves the
\* counters back by +2 and -1, or starts a new game; and the counters are a
\* function of the height of the stack.  So a match followed by undo, and k
\* undos after k matches with shuffles in between, restore the tile list and
\* the counters of before.
C35_UndoInvertsMatch ==
    /\ [](tilesRemaining = INITIAL_REMAINING - 2 * Len(history) /\ matchesMade = Len(history))
    /\ [][\/ /\ history' = history
             /\ tiles' # tiles => (pc # "play" /\ caller = "shuffleBoard")
          \/ /\ history' = Append(history, tiles)
             /\ \E a, b \in DOMAIN tiles : tiles' = removeTilePair(tiles, tiles[a].id, tiles[b].id)
          \/ /\ Len(history) > 0
             /\ history' = SubSeq(history, 1, Len(history) - 1)
             /\ tiles' = history[Len(history)]
          \/ /\ history' = <<>>
             /\ caller' = "generateBoard"
             /\ pc = "play" => pc' = "attempt"]_vars

\* the full board of a row of four is back, with its first ids, after a match,
\* a shuffle of the two tiles left and an undo
C35_Witness ==
    /\ pc = "play"
    /\ caller = "shuffleBoard"
    /\ history = <<>>
    /\ tileIdCounter > Len(layout)
    /\ Len(tiles) = 4
    /\ \A i \in DOMAIN tiles : ~tiles[i].isRemoved /\ tiles[i].id = i

(***************************************************************************)
(* Properties of the session with its score and combo.                     *)
(***************************************************************************)
\* the tile selectTile finds for an id is missing, removed or not free
NotSelectable(tileId) ==
    \/ \A i \in DOMAIN tiles : tiles[i].id # tileId
    \/ LET first == CHOOSE i \in DOMAIN tiles :
                        tiles[i].id = tileId /\ \A j \in 1..(i - 1) : tiles[j].id # tileId
       IN tiles[first].isRemoved \/ ~isFreeTile(tiles[first], tiles)

\* the tile with the id is of a type that matches the type of the selected tile
MatchesSelected(tileId) ==
    \E i, k \in DOMAIN tiles :
        /\ tiles[i].id = tileId
        /\ tiles[k].id = selectedTileId
        /\ tilesMatch(getTileTypeById(tiles[i].typeId), getTileTypeById(tiles[k].typeId))

\* every field of the game state but selectedTileId
AllButSelection ==
    <<board, history, tilesRemaining, matchesMade, isComplete, isStuck, hintPair, scoring>>

\* C36: selectTile changes nothing when the game is complete or stuck
\* (isComplete, isStuck), when the id names no tile or a removed tile, or when
\* the tile is not free; on the selected tile it only clears the selection, and
\* on a free tile that does not match the selected one it only moves the
\* selection there.
C36_SelectTileFrames ==
    [][\A tileId \in TileIdInputs :
          SelectTile(tileId) =>
              IF isComplete \/ isStuck \/ NotSelectable(tileId)
              THEN UNCHANGED <<board, session, scoring>>
              ELSE /\ selectedTileId = tileId =>
                          selectedTileId' = NoTile /\ UNCHANGED AllButSelection
                   /\ (selectedTileId \notin {NoTile, tileId} /\ ~MatchesSelected(tileId)) =>
                          selectedTileId' = tileId /\ UNCHANGED AllButSelection]_vars

\* a stuck game with points on the score and a free tile left to click
C36_Witness ==
    /\ pc = "play"
    /\ isStuck
    /\ score > 0
    /\ \E tileId \in TileIdInputs : ~NotSelectable(tileId)

\* a step of selectTile that removes a pair, with the score kept
ScoredMatch == scored /\ pc = "play" /\ pc' = "play" /\ matchesMade' = matchesMade + 1

\* C37: the combo-decay callback only sets combo to 0, whenever it fires, and
\* no update of an operation is lost to it: the history and the counters keep
\* step with each other; the combo after a match is the previous combo + 1
\* when the match comes less than 3000 ms after the previous one, and 1
\* otherwise.
C37_ComboDecay ==
    /\ [](Len(history) = matchesMade /\ tilesRemaining = INITIAL_REMAINING - 2 * matchesMade)
    /\ [][/\ ComboDecay =>
                 combo' = 0 /\ UNCHANGED <<board, session, score, lastMatchTime, tileIdCounter>>
          /\ ScoredMatch =>
                 /\ combo' = IF now - lastMatchTime < COMBO_TIMEOUT THEN combo + 1 ELSE 1
                 /\ lastMatchTime' = now]_vars

\* two matches, the second at least 3000 ms after the first: combo 1 again
C37_Witness ==
    /\ pc = "play"
    /\ caller = "generateBoard"
    /\ matchesMade = 2
    /\ combo = 1
    /\ timerDue # 0
    /\ score = 2 * calculateMatchPoints(1, 0)

=============================================================================
